---- MODULE Spec2Model ----
(***************************************************************************)
(* Model of the Augmented frontend's synchronisation path:                 *)
(*   - hooks/useWebSocket.ts : the connection, its reconnect timer and the *)
(*     merge of tasks_update / task_update messages into the hook's view;  *)
(*   - App.tsx               : the task list App displays (the react-query *)
(*     cache for ['tasks']), fed by the hook's view and by refetches;      *)
(*   - utils/api.ts          : taskApi, the REST calls to the task store;  *)
(*   - App.tsx, hooks/useAudioRecorder.ts, components/ResponseDisplay.tsx: *)
(*     the voice button, the recorder and the response display.            *)
(* The backend (task store, broadcaster) is not part of the sources; the   *)
(* store is modelled from the specification's Task Store Adapter contract. *)
(***************************************************************************)
EXTENDS Integers, Sequences, FiniteSets, TLC

\* ------------------------------------------------------------------ bounds
MaxSockets  == 6     \* WebSocket objects created in one behaviour of SpecConn
SyncSockets == 2     \* WebSocket objects created in one behaviour of SpecSync
MaxApiCalls == 1     \* calls of the returned connect() / disconnect() in one behaviour
MaxId       == 2     \* task identifiers 1..MaxId
MaxUnanswered == 2   \* the count of unanswered pings stops growing here
MaxBatch    == 2     \* frames handled between two renders
MaxCalls    == 4     \* runs of handleVoiceButtonClick that reach an await

\* ------------------------------------------------------- program constants
maxReconnectAttempts == 5
BaseDelayMs          == 1000
MaxDelayMs           == 30000

\* ------------------------------------------------------------------- state
VARIABLES
    isConnected,          \* useState(false)
    tasks,                \* useState<Task[]>([]) : the hook's task view
    wsRef,                \* useRef<WebSocket|null> : 0 = null, else a socket index
    reconnectTimeoutRef,  \* useRef<number>() : 0 = undefined, else a timer handle
    reconnectAttempts,    \* useRef(0)
    socks,                \* readyState of every WebSocket created so far
    timers,               \* pending setTimeout callbacks: [id, delay]
    lastDelay,            \* delay given to the latest setTimeout (0: none yet)
    lastSent,             \* type of the latest message the hook sent
    unanswered,           \* interval pings sent on wsRef's socket and not answered by a pong
    lastChange,           \* how the view last changed since the latest open event
    mounted,              \* the useEffect of the hook has run
    apiCalls,             \* calls of the returned connect() / disconnect() so far
    displayed,            \* react-query data for ['tasks'] : the list App shows
    store,                \* the backend's task list
    nextId,               \* next identifier the store assigns
    updateQueue,          \* React's queue of setTasks updates not yet rendered
    batchFrames,          \* the frames handled since the latest render, in delivery order
    rendered,             \* how many updates the latest render processed
    appState,             \* useState<AppState>(AppState.IDLE)
    hasAudioPermission,   \* useState(false)
    permissionPending,    \* checkAudioPermission awaits getUserMedia
    lastResponse,         \* useState<TaskAction|null>(null) : id 0 = null
    showResponse,         \* useState(false)
    isRecording,          \* useAudioRecorder: useState(false)
    mediaRecorderRef,     \* useAudioRecorder: useRef : 0 = null, else a recorder index
    recorders,            \* every MediaRecorder created, with its stream's tracks and
                          \* the useAudioRecorder that made it
    calls,                \* runs of handleVoiceButtonClick that reached an await
    errorTimers,          \* pending setTimeout(() => setAppState(IDLE), 2000)
    autoCloseTimer,       \* ResponseDisplay: useState(null) : 0 = null, else a timer
    cleanupClears,        \* the autoCloseTimer the effect's current cleanup closes over
    closeTimers,          \* pending setTimeout(() => onClose(), 5000)
    lastClickIn,          \* appState at the latest click on the voice button
    audioURL,             \* useAudioRecorder: useState('') : 0 = '', else an object URL
    liveUrls,             \* object URLs created and not revoked
    chunks                \* audioChunksRef.current holds data

vars == << isConnected, tasks, wsRef, reconnectTimeoutRef, reconnectAttempts,
           socks, timers, lastDelay, lastSent, unanswered, lastChange, mounted,
           apiCalls, displayed, store, nextId, updateQueue, batchFrames,
           rendered, appState, hasAudioPermission, permissionPending,
           lastResponse, showResponse, isRecording, mediaRecorderRef, recorders,
           calls, errorTimers, autoCloseTimer, cleanupClears, closeTimers,
           lastClickIn, audioURL, liveUrls, chunks >>

linkVars == << isConnected, wsRef, reconnectTimeoutRef, reconnectAttempts,
               socks, timers, lastDelay, lastSent, mounted, apiCalls >>
connVars == << linkVars, unanswered >>
appVars  == << displayed, store, nextId, lastChange >>
batchVars == << updateQueue, batchFrames, rendered >>
recorderVars == << isRecording, mediaRecorderRef, recorders >>
responseVars == << lastResponse, showResponse, autoCloseTimer, cleanupClears,
                   closeTimers >>
urlVars == << audioURL, liveUrls, chunks >>
voiceVars == << appState, hasAudioPermission, permissionPending,
                recorderVars, responseVars, calls, errorTimers, lastClickIn,
                urlVars >>

\* ------------------------------------------------------------------- tasks
Ids  == 1..MaxId
Task == [id : Ids, completed : BOOLEAN]

UniqueIds(l) == \A i, j \in 1..Len(l) : l[i].id = l[j].id => i = j

\* Task lists as the store produces them: at most one task per identifier.
TaskLists == { l \in UNION { [1..n -> Task] : n \in 0..MaxId } : UniqueIds(l) }

HasId(l, id) == \E i \in 1..Len(l) : l[i].id = id

RECURSIVE SelectTasks(_, _)
SelectTasks(l, keepCompleted) ==
    IF l = << >> THEN << >>
    ELSE IF keepCompleted \/ ~Head(l).completed
         THEN << Head(l) >> \o SelectTasks(Tail(l), keepCompleted)
         ELSE SelectTasks(Tail(l), keepCompleted)

\* ---------------------------------------------------------------- messages
\* A frame is the text of one message event.  valid: JSON.parse accepts it;
\* hasTasks / hasData: the parsed object carries a truthy tasks / data field.
NoTask == [id |-> 1, completed |-> FALSE]

Frame(valid, type, hasTasks, l, hasData, t) ==
    [valid |-> valid, type |-> type, hasTasks |-> hasTasks, tasks |-> l,
     hasData |-> hasData, data |-> t]

TasksUpdate(l) == Frame(TRUE, "tasks_update", TRUE, l, FALSE, NoTask)
TaskUpdate(t)  == Frame(TRUE, "task_update", FALSE, << >>, TRUE, t)

Frames ==
         { Frame(FALSE, "none", FALSE, << >>, FALSE, NoTask),
           Frame(TRUE, "pong", FALSE, << >>, FALSE, NoTask),
           Frame(TRUE, "unknown", FALSE, << >>, FALSE, NoTask),
           Frame(TRUE, "tasks_update", FALSE, << >>, FALSE, NoTask),
           Frame(TRUE, "task_update", FALSE, << >>, FALSE, NoTask) }
    \cup { TasksUpdate(l) : l \in TaskLists }
    \cup { TaskUpdate(t) : t \in Task }

\* variant: the task is taken out of the list and pushed at the end
UpsertMoveToEnd(prev, d) ==
    Append(SelectSeq(prev, LAMBDA t : t.id # d.id), d)

\* variant: the push is not guarded by the search for the id
UpsertAlwaysPush(prev, d) ==
    Append([ i \in 1..Len(prev) |-> IF prev[i].id = d.id THEN d ELSE prev[i] ], d)

\* variant: the task is pushed without looking for its id
UpsertPushOnly(prev, d) == Append(prev, d)

\* prev.map(task => task.id === data.id ? data : task), then push when not found
UpsertMerge(prev, d) ==
    LET updated == [ i \in 1..Len(prev) |-> IF prev[i].id = d.id THEN d ELSE prev[i] ]
    IN  IF ~HasId(prev, d.id) THEN Append(updated, d) ELSE updated

\* Does handling f call setTasks (a new array, so App's effect on wsTasks runs)?
SetsTasks(f) ==
    /\ f.valid
    /\ \/ f.type = "tasks_update" /\ f.hasTasks
       \/ f.type = "task_update" /\ f.hasData

\* variant: the tasks_update branch does not test message.tasks
HandleFrameUnguarded(prev, f) ==
    IF ~f.valid THEN prev
    ELSE IF f.type = "tasks_update" THEN f.tasks
    ELSE IF f.type = "task_update" /\ f.hasData THEN UpsertMerge(prev, f.data)
    ELSE prev

\* The task view after ws.onmessage has handled frame f.
HandleFrame(prev, f) ==
    IF ~f.valid THEN prev
    ELSE IF f.type = "tasks_update" /\ f.hasTasks THEN f.tasks
    ELSE IF f.type = "task_update" /\ f.hasData THEN UpsertMerge(prev, f.data)
    ELSE prev

\* Which branch of ws.onmessage changed the view (kept for the properties only).
ChangeKind(prev, f, last) ==
    IF ~SetsTasks(f) THEN last
    ELSE IF f.type = "tasks_update" THEN "snapshot"
    ELSE IF HasId(prev, f.data.id) THEN "replace"
    ELSE "append"

\* App's effect on wsTasks: copy the hook's view into the query cache when non-empty
WsTasksEffect(shown, wsTasks) ==
    IF Len(wsTasks) > 0 THEN wsTasks ELSE shown

\* ------------------------------------------------------- batched updates
\* variant: the handler merges into the tasks of the current render and hands
\* setTasks the result as a value
UpdateOfStale(f) ==
    [fn |-> FALSE, value |-> HandleFrame(tasks, f), data |-> NoTask]

\* The update a frame's handler hands to setTasks: a value for a tasks_update,
\* an updater function (prev => ...) closed over message.data for a task_update.
UpdateOf(f) ==
    IF f.type = "tasks_update"
    THEN [fn |-> FALSE, value |-> f.tasks, data |-> NoTask]
    ELSE [fn |-> TRUE, value |-> << >>, data |-> f.data]

\* React applying one queued update to the state computed so far
ApplyUpdate(state, u) ==
    IF u.fn THEN UpsertMerge(state, u.data) ELSE u.value

\* React processing the queue of a render, oldest update first
RECURSIVE ApplyQueue(_, _)
ApplyQueue(state, q) ==
    IF q = << >> THEN state
    ELSE ApplyQueue(ApplyUpdate(state, Head(q)), Tail(q))

\* the left fold of the merge rule over frames in delivery order
RECURSIVE FoldFrames(_, _)
FoldFrames(state, fs) ==
    IF fs = << >> THEN state
    ELSE FoldFrames(HandleFrame(state, Head(fs)), Tail(fs))

\* ChangeKind, folded over the frames of a batch
RECURSIVE FoldKind(_, _, _)
FoldKind(state, fs, last) ==
    IF fs = << >> THEN last
    ELSE FoldKind(HandleFrame(state, Head(fs)), Tail(fs),
                  ChangeKind(state, Head(fs), last))

\* the frames delivered while a render is pending: every task_update, the
\* empty snapshot and a pong
BatchFrames ==
         { TaskUpdate(t) : t \in Task }
    \cup { TasksUpdate(<< >>),
           Frame(TRUE, "pong", FALSE, << >>, FALSE, NoTask) }

\* ----------------------------------------------------------------- backoff
Min(a, b) == IF a < b THEN a ELSE b

RECURSIVE Pow2(_)
Pow2(n) == IF n = 0 THEN 1 ELSE 2 * Pow2(n - 1)

\* variant: the delay is not capped
BackoffDelayUncapped(attempts) == BaseDelayMs * Pow2(attempts)

\* Math.min(1000 * Math.pow(2, attempts), 30000)
BackoffDelay(attempts) == Min(BaseDelayMs * Pow2(attempts), MaxDelayMs)

\* variant: the budget test admits one attempt more
MayReconnectInclusive(attempts) == attempts <= maxReconnectAttempts

\* reconnectAttempts.current < maxReconnectAttempts
MayReconnect(attempts) == attempts < maxReconnectAttempts

\* ------------------------------------------------------------------- store
\* list(filter: includeCompleted), as taskApi.getTasks(includeCompleted) asks for it
GetTasks(st, includeCompleted) == SelectTasks(st, includeCompleted)

StoreComplete(st, id) ==
    [ i \in 1..Len(st) |-> IF st[i].id = id THEN [st[i] EXCEPT !.completed = TRUE] ELSE st[i] ]

StoreDelete(st, id) == SelectSeq(st, LAMBDA t : t.id # id)

StoreCreate(st, id) == Append(st, [id |-> id, completed |-> FALSE])

\* -------------------------------------------------------------------- init
Init ==
    /\ isConnected = FALSE
    /\ tasks = << >>
    /\ wsRef = 0
    /\ reconnectTimeoutRef = 0
    /\ reconnectAttempts = 0
    /\ socks = << >>
    /\ timers = {}
    /\ lastDelay = 0
    /\ lastSent = "none"
    /\ unanswered = 0
    /\ lastChange = "none"
    /\ mounted = FALSE
    /\ apiCalls = 0
    /\ displayed = << >>
    /\ store = << >>
    /\ nextId = 1
    /\ updateQueue = << >>
    /\ batchFrames = << >>
    /\ rendered = 0
    /\ appState = "IDLE"
    /\ hasAudioPermission = FALSE
    /\ permissionPending = TRUE
    /\ lastResponse = [id |-> 0, action |-> "none"]
    /\ showResponse = FALSE
    /\ isRecording = FALSE
    /\ mediaRecorderRef = 0
    /\ recorders = << >>
    /\ calls = << >>
    /\ errorTimers = 0
    /\ autoCloseTimer = 0
    /\ cleanupClears = 0
    /\ closeTimers = {}
    /\ lastClickIn = "none"
    /\ audioURL = 0
    /\ liveUrls = {}
    /\ chunks = FALSE

\* ----------------------------------------------------------- the hook
Live(s) == socks[s] # "CLOSED"

\* connect(): new WebSocket(WS_URL), handlers attached, wsRef.current = ws
Connect(cap) ==
    /\ Len(socks) < cap
    /\ socks' = Append(socks, "CONNECTING")
    /\ wsRef' = Len(socks) + 1
    /\ unanswered' = 0

\* useEffect: connect() and the ping interval
Mount ==
    /\ ~mounted
    /\ mounted' = TRUE
    /\ Connect(MaxSockets)
    /\ UNCHANGED << isConnected, tasks, reconnectTimeoutRef, reconnectAttempts,
                    timers, lastDelay, lastSent, apiCalls >>
    /\ UNCHANGED appVars
    /\ UNCHANGED batchVars
    /\ UNCHANGED voiceVars

\* connect() called through the hook's returned API
ApiConnect(cap) ==
    /\ mounted
    /\ apiCalls < MaxApiCalls
    /\ apiCalls' = apiCalls + 1
    /\ Connect(cap)
    /\ UNCHANGED << isConnected, tasks, reconnectTimeoutRef, reconnectAttempts,
                    timers, lastDelay, lastSent, mounted >>
    /\ UNCHANGED appVars
    /\ UNCHANGED batchVars
    /\ UNCHANGED voiceVars

\* disconnect()
ApiDisconnect ==
    /\ mounted
    /\ apiCalls < MaxApiCalls
    /\ apiCalls' = apiCalls + 1
    /\ timers' = { t \in timers : t.id # reconnectTimeoutRef }
    /\ socks' = IF wsRef # 0 /\ socks[wsRef] \in {"CONNECTING", "OPEN"}
                THEN [socks EXCEPT ![wsRef] = "CLOSING"] ELSE socks
    /\ wsRef' = 0
    /\ isConnected' = FALSE
    /\ unanswered' = 0
    /\ UNCHANGED << tasks, reconnectTimeoutRef, reconnectAttempts, lastDelay,
                    lastSent, mounted >>
    /\ UNCHANGED appVars
    /\ UNCHANGED batchVars
    /\ UNCHANGED voiceVars

\* variant: ws.onopen leaves the attempt counter as it is
OnOpenKeepsCounter(s) ==
    /\ s \in 1..Len(socks)
    /\ socks[s] = "CONNECTING"
    /\ socks' = [socks EXCEPT ![s] = "OPEN"]
    /\ isConnected' = TRUE
    /\ lastSent' = "ping"
    /\ unanswered' = 0
    /\ lastChange' = "none"
    /\ UNCHANGED << tasks, wsRef, reconnectTimeoutRef, reconnectAttempts, timers,
                    lastDelay, mounted, apiCalls >>
    /\ UNCHANGED << displayed, store, nextId >>
    /\ UNCHANGED batchVars
    /\ UNCHANGED voiceVars

\* ws.onopen
OnOpen(s) ==
    /\ s \in 1..Len(socks)
    /\ socks[s] = "CONNECTING"
    /\ socks' = [socks EXCEPT ![s] = "OPEN"]
    /\ isConnected' = TRUE
    /\ reconnectAttempts' = 0
    /\ lastSent' = "ping"
    /\ unanswered' = 0
    /\ lastChange' = "none"
    /\ UNCHANGED << tasks, wsRef, reconnectTimeoutRef, timers, lastDelay, mounted,
                    apiCalls >>
    /\ UNCHANGED << displayed, store, nextId >>
    /\ UNCHANGED batchVars
    /\ UNCHANGED voiceVars

\* ws.onclose
OnClose(s) ==
    /\ s \in 1..Len(socks)
    /\ Live(s)
    /\ socks' = [socks EXCEPT ![s] = "CLOSED"]
    /\ isConnected' = FALSE
    /\ wsRef' = 0
    /\ unanswered' = 0
    /\ IF MayReconnect(reconnectAttempts)
       THEN /\ reconnectAttempts' = reconnectAttempts + 1
            /\ timers' = timers \cup
                 { [id |-> s, delay |-> BackoffDelay(reconnectAttempts + 1)] }
            /\ lastDelay' = BackoffDelay(reconnectAttempts + 1)
            /\ reconnectTimeoutRef' = s
       ELSE UNCHANGED << reconnectAttempts, timers, lastDelay, reconnectTimeoutRef >>
    /\ UNCHANGED << tasks, lastSent, mounted, apiCalls >>
    /\ UNCHANGED appVars
    /\ UNCHANGED batchVars
    /\ UNCHANGED voiceVars

\* the setTimeout callback of ws.onclose: connect()
TimerFire(t, cap) ==
    /\ t \in timers
    /\ timers' = timers \ {t}
    /\ Connect(cap)
    /\ UNCHANGED << isConnected, tasks, reconnectTimeoutRef, reconnectAttempts,
                    lastDelay, lastSent, mounted, apiCalls >>
    /\ UNCHANGED appVars
    /\ UNCHANGED batchVars
    /\ UNCHANGED voiceVars

\* ws.onmessage on an open socket, rendered before the next event, and App's
\* effect on the new wsTasks
OnMessage(s, f) ==
    /\ s \in 1..Len(socks)
    /\ socks[s] = "OPEN"
    /\ updateQueue = << >>
    /\ tasks' = HandleFrame(tasks, f)
    /\ displayed' = IF SetsTasks(f) THEN WsTasksEffect(displayed, tasks') ELSE displayed
    /\ lastChange' = ChangeKind(tasks, f, lastChange)
    /\ unanswered' = IF f.valid /\ f.type = "pong" /\ s = wsRef THEN 0 ELSE unanswered
    /\ UNCHANGED linkVars
    /\ UNCHANGED << store, nextId >>
    /\ UNCHANGED batchVars
    /\ UNCHANGED voiceVars

\* the setInterval callback: ping when wsRef is an open socket
PingTick ==
    /\ mounted
    /\ wsRef # 0
    /\ socks[wsRef] = "OPEN"
    /\ lastSent' = "ping"
    /\ unanswered' = Min(unanswered + 1, MaxUnanswered)
    /\ UNCHANGED << isConnected, tasks, wsRef, reconnectTimeoutRef, reconnectAttempts,
                    socks, timers, lastDelay, mounted, apiCalls >>
    /\ UNCHANGED appVars
    /\ UNCHANGED batchVars
    /\ UNCHANGED voiceVars

\* requestTasks(): sendMessage({type: 'get_tasks'})
RequestTasks ==
    /\ mounted
    /\ wsRef # 0
    /\ socks[wsRef] = "OPEN"
    /\ lastSent' = "get_tasks"
    /\ UNCHANGED unanswered
    /\ UNCHANGED << isConnected, tasks, wsRef, reconnectTimeoutRef, reconnectAttempts,
                    socks, timers, lastDelay, mounted, apiCalls >>
    /\ UNCHANGED appVars
    /\ UNCHANGED batchVars
    /\ UNCHANGED voiceVars

\* ws.onmessage on an open socket while React defers the render: the update
\* joins the queue
OnMessageQueued(s, f) ==
    /\ s \in 1..Len(socks)
    /\ socks[s] = "OPEN"
    /\ Len(batchFrames) < MaxBatch
    /\ batchFrames' = Append(batchFrames, f)
    /\ updateQueue' = IF SetsTasks(f) THEN Append(updateQueue, UpdateOf(f))
                      ELSE updateQueue
    /\ unanswered' = IF f.valid /\ f.type = "pong" /\ s = wsRef THEN 0 ELSE unanswered
    /\ UNCHANGED << tasks, displayed, lastChange, store, nextId, rendered >>
    /\ UNCHANGED linkVars
    /\ UNCHANGED voiceVars

\* React renders: the queued updates are applied in order, then App's effect
\* on the new wsTasks runs
Render ==
    /\ batchFrames # << >>
    /\ tasks' = ApplyQueue(tasks, updateQueue)
    /\ displayed' = IF updateQueue # << >> THEN WsTasksEffect(displayed, tasks')
                    ELSE displayed
    /\ lastChange' = FoldKind(tasks, batchFrames, lastChange)
    /\ rendered' = Len(updateQueue)
    /\ updateQueue' = << >>
    /\ batchFrames' = << >>
    /\ UNCHANGED << store, nextId >>
    /\ UNCHANGED connVars
    /\ UNCHANGED voiceVars

\* ------------------------------------------------------------------ App
\* useQuery(['tasks']): taskApi.getTasks(false) resolves
Refetch ==
    /\ displayed' = GetTasks(store, FALSE)
    /\ UNCHANGED << store, nextId, tasks, lastChange >>
    /\ UNCHANGED connVars
    /\ UNCHANGED batchVars
    /\ UNCHANGED voiceVars

\* handleCompleteTask(id): taskApi.completeTask, then refetchTasks
HandleCompleteTask(id) ==
    /\ HasId(displayed, id)
    /\ store' = StoreComplete(store, id)
    /\ displayed' = GetTasks(store', FALSE)
    /\ UNCHANGED << nextId, tasks, lastChange >>
    /\ UNCHANGED connVars
    /\ UNCHANGED batchVars
    /\ UNCHANGED voiceVars

\* handleDeleteTask(id): taskApi.deleteTask, then refetchTasks
HandleDeleteTask(id) ==
    /\ HasId(displayed, id)
    /\ store' = StoreDelete(store, id)
    /\ displayed' = GetTasks(store', FALSE)
    /\ UNCHANGED << nextId, tasks, lastChange >>
    /\ UNCHANGED connVars
    /\ UNCHANGED batchVars
    /\ UNCHANGED voiceVars

\* a command executed by the backend adds a task
StoreAdd ==
    /\ nextId <= MaxId
    /\ store' = StoreCreate(store, nextId)
    /\ nextId' = nextId + 1
    /\ UNCHANGED << displayed, tasks, lastChange >>
    /\ UNCHANGED connVars
    /\ UNCHANGED batchVars
    /\ UNCHANGED voiceVars

\* ---------------------------------------------------------------- voice
hookVars  == << tasks, connVars, lastChange, batchVars >>
storeVars == << store, nextId >>

\* the actions a response can carry: one that is auto-closed, and unclear
ActionTypes == {"add_task", "unclear"}
NoResponse  == [id |-> 0, action |-> "none"]

\* which useAudioRecorder made the recorders so far ("any": none made yet)
Build == IF recorders = << >> THEN "any" ELSE recorders[1].build

\* variant: the second branch of handleVoiceButtonClick is a plain else
ClickBranchElse(state) ==
    IF state = "LISTENING" THEN "stop" ELSE "start"

\* the branch handleVoiceButtonClick takes once permission is granted
ClickBranch(state) ==
    IF state = "LISTENING" THEN "stop"
    ELSE IF state = "IDLE" THEN "start"
    ELSE "none"

\* variant: the handler does not test hasAudioPermission
PermittedBranchUnchecked(permission, state) == ClickBranch(state)

\* if (!hasAudioPermission) { alert(...); return; } before the branches
PermittedBranch(permission, state) ==
    IF permission THEN ClickBranch(state) ELSE "none"

\* a run of the handler; url: the audioURL its clearRecording closes over
Call(branch, pc, rec, url) ==
    [branch |-> branch, pc |-> pc, rec |-> rec, url |-> url, shown |-> FALSE]

\* clearRecording as created in the render whose audioURL was url
ClearRecording(url) ==
    /\ liveUrls' = IF url # 0 THEN liveUrls \ {url} ELSE liveUrls
    /\ audioURL' = IF url # 0 THEN 0 ELSE audioURL
    /\ chunks' = FALSE

\* ResponseDisplay's effect after a render in which isVisible or response
\* changed: the cleanup of the previous run clears the timer it closed over,
\* then a timer is set for a visible response whose action is not unclear.  The
\* new cleanup closes over the autoCloseTimer of this render.
EffectRuns(pending, visible, response) ==
    LET kept == pending \ {cleanupClears}
        arms == visible /\ response.id # 0 /\ response.action # "unclear"
    IN  /\ closeTimers' = IF arms THEN kept \cup {response.id} ELSE kept
        /\ autoCloseTimer' = IF arms THEN response.id ELSE autoCloseTimer
        /\ cleanupClears' = autoCloseTimer

\* handleCloseResponse, and the effect when it changed anything
CloseResponse(pending) ==
    /\ showResponse' = FALSE
    /\ lastResponse' = NoResponse
    /\ IF showResponse \/ lastResponse # NoResponse
       THEN EffectRuns(pending, FALSE, NoResponse)
       ELSE /\ closeTimers' = pending
            /\ UNCHANGED << autoCloseTimer, cleanupClears >>

\* checkAudioPermission: getUserMedia({audio: true}) resolves or rejects
PermissionResolved(granted) ==
    /\ permissionPending
    /\ permissionPending' = FALSE
    /\ hasAudioPermission' = granted
    /\ UNCHANGED << appState, recorderVars, responseVars, calls, errorTimers,
                    lastClickIn, urlVars, displayed, hookVars, storeVars >>

\* handleVoiceButtonClick up to its first await
HandleVoiceButtonClick ==
    /\ lastClickIn' = appState
    /\ LET branch == PermittedBranch(hasAudioPermission, appState)
       IN  CASE branch = "none" ->
                  UNCHANGED << appState, recorderVars, calls, errorTimers, urlVars >>
             [] branch = "start" ->
                  /\ Len(calls) < MaxCalls
                  /\ calls' = Append(calls, Call("start", "starting", 0, 0))
                  /\ UNCHANGED << appState, recorderVars, errorTimers, urlVars >>
             [] branch = "stop" ->
                  /\ Len(calls) < MaxCalls
                  /\ IF mediaRecorderRef = 0 \/ ~isRecording
                     THEN \* stopRecording resolves null; finally clearRecording
                          /\ appState' = "PROCESSING"
                          /\ calls' = Append(calls, Call("stop", "done", 0, audioURL))
                          /\ ClearRecording(audioURL)
                          /\ UNCHANGED << recorderVars, errorTimers >>
                     ELSE IF recorders[mediaRecorderRef].state = "inactive"
                     THEN \* stop() of an inactive recorder throws: the catch branch
                          /\ appState' = "ERROR"
                          /\ errorTimers' = errorTimers + 1
                          /\ recorders' = [recorders EXCEPT ![mediaRecorderRef].onstop = "stop"]
                          /\ calls' = Append(calls, Call("stop", "done", 0, audioURL))
                          /\ ClearRecording(audioURL)
                          /\ UNCHANGED << isRecording, mediaRecorderRef >>
                     ELSE /\ appState' = "PROCESSING"
                          /\ recorders' = [recorders EXCEPT
                                             ![mediaRecorderRef].onstop = "stop",
                                             ![mediaRecorderRef].state = "inactive"]
                          /\ calls' = Append(calls, Call("stop", "stopping", mediaRecorderRef,
                                                       audioURL))
                          /\ UNCHANGED << isRecording, mediaRecorderRef, errorTimers,
                                          urlVars >>
    /\ UNCHANGED << hasAudioPermission, permissionPending, responseVars, displayed,
                    hookVars, storeVars >>

\* startRecording's getUserMedia settles; b is the useAudioRecorder in the build
StartResolved(c, ok, b) ==
    /\ c \in 1..Len(calls)
    /\ calls[c].pc = "starting"
    /\ calls' = [calls EXCEPT ![c].pc = "done"]
    /\ IF ok
       THEN /\ Build \in {"any", b}
            /\ recorders' = Append(recorders,
                   [state |-> "recording", tracks |-> "live", build |-> b,
                    onstop |-> IF b = "plain" THEN "start" ELSE "none"])
            /\ mediaRecorderRef' = Len(recorders) + 1
            /\ isRecording' = TRUE
            /\ appState' = "LISTENING"
            /\ chunks' = FALSE
            /\ UNCHANGED << errorTimers, audioURL, liveUrls >>
       ELSE /\ appState' = "ERROR"
            /\ errorTimers' = errorTimers + 1
            /\ UNCHANGED << recorderVars, urlVars >>
    /\ UNCHANGED << hasAudioPermission, permissionPending, responseVars, lastClickIn,
                    displayed, hookVars, storeVars >>

\* the recorder's stop event: the onstop that stopRecording assigned runs, then
\* handleVoiceButtonClick continues after its await; hasData: totalSize > 0
OnStopEvent(c, hasData) ==
    /\ c \in 1..Len(calls)
    /\ calls[c].pc = "stopping"
    /\ IF recorders[calls[c].rec].build = "logging" /\ ~hasData
       THEN \* resolve(null): no branch of the handler runs but finally
            /\ calls' = [calls EXCEPT ![c].pc = "done"]
            /\ ClearRecording(calls[c].url)
            /\ UNCHANGED recorderVars
       ELSE /\ isRecording' = FALSE
            /\ audioURL' = c
            /\ liveUrls' = liveUrls \cup {c}
            /\ chunks' = hasData
            /\ recorders' =
                 IF recorders[calls[c].rec].build = "logging"
                 THEN [recorders EXCEPT ![mediaRecorderRef].tracks = "stopped"]
                 ELSE recorders
            /\ calls' = [calls EXCEPT ![c].pc = "calling"]
            /\ UNCHANGED mediaRecorderRef
    /\ UNCHANGED << appState, hasAudioPermission, permissionPending, responseVars,
                    errorTimers, lastClickIn, displayed, hookVars, storeVars >>

\* voiceApi.processVoiceCommand resolves with an action
BackendResponds(c, a) ==
    /\ c \in 1..Len(calls)
    /\ calls[c].pc = "calling"
    /\ lastResponse' = [id |-> c, action |-> a]
    /\ showResponse' = TRUE
    /\ appState' = "IDLE"
    /\ EffectRuns(closeTimers, TRUE, lastResponse')
    /\ calls' = [calls EXCEPT ![c].pc = "refetching", ![c].shown = TRUE]
    /\ UNCHANGED << hasAudioPermission, permissionPending, recorderVars, errorTimers,
                    lastClickIn, urlVars, displayed, hookVars, storeVars >>

\* blobToBase64 or voiceApi.processVoiceCommand rejects: the catch branch
BackendFails(c) ==
    /\ c \in 1..Len(calls)
    /\ calls[c].pc = "calling"
    /\ appState' = "ERROR"
    /\ errorTimers' = errorTimers + 1
    /\ calls' = [calls EXCEPT ![c].pc = "done"]
    /\ ClearRecording(calls[c].url)
    /\ UNCHANGED << hasAudioPermission, permissionPending, recorderVars, responseVars,
                    lastClickIn, displayed, hookVars, storeVars >>

\* refetchTasks resolves; finally clearRecording
RefetchDone(c) ==
    /\ c \in 1..Len(calls)
    /\ calls[c].pc = "refetching"
    /\ displayed' = GetTasks(store, FALSE)
    /\ calls' = [calls EXCEPT ![c].pc = "done"]
    /\ ClearRecording(calls[c].url)
    /\ UNCHANGED << appState, hasAudioPermission, permissionPending, recorderVars,
                    responseVars, errorTimers, lastClickIn, hookVars, storeVars >>

\* setTimeout(() => setAppState(AppState.IDLE), 2000) fires
ErrorReset ==
    /\ errorTimers > 0
    /\ errorTimers' = errorTimers - 1
    /\ appState' = "IDLE"
    /\ UNCHANGED << hasAudioPermission, permissionPending, recorderVars, responseVars,
                    calls, lastClickIn, urlVars, displayed, hookVars, storeVars >>

\* setTimeout(() => onClose(), 5000) fires
AutoCloseFire(t) ==
    /\ t \in closeTimers
    /\ CloseResponse(closeTimers \ {t})
    /\ UNCHANGED << appState, hasAudioPermission, permissionPending, recorderVars,
                    calls, errorTimers, lastClickIn, urlVars, displayed, hookVars,
                    storeVars >>

\* the Dismiss button, rendered for a visible response that is not unclear
Dismiss ==
    /\ showResponse
    /\ lastResponse.id # 0
    /\ lastResponse.action # "unclear"
    /\ CloseResponse(closeTimers)
    /\ UNCHANGED << appState, hasAudioPermission, permissionPending, recorderVars,
                    calls, errorTimers, lastClickIn, urlVars, displayed, hookVars,
                    storeVars >>

\* the hook's connection: every handler that changes a socket or a timer
NextLink(cap) ==
    \/ Mount
    \/ ApiConnect(cap)
    \/ ApiDisconnect
    \/ \E s \in 1..MaxSockets : OnOpen(s)
    \/ \E s \in 1..MaxSockets : OnClose(s)
    \/ \E t \in timers : TimerFire(t, cap)

\* the handlers that only send on the current socket
NextSend ==
    \/ PingTick
    \/ RequestTasks

NextConn(cap) == NextLink(cap) \/ NextSend

NextInbound == \E s \in 1..MaxSockets, f \in Frames : OnMessage(s, f)

NextApp ==
    \/ Refetch
    \/ \E id \in Ids : HandleCompleteTask(id)
    \/ \E id \in Ids : HandleDeleteTask(id)
    \/ StoreAdd

NextBatch ==
    \/ \E s \in 1..MaxSockets, f \in BatchFrames : OnMessageQueued(s, f)
    \/ Render

\* what the user and the browser do to the voice button and the recorder
NextVoiceInput ==
    \/ \E g \in BOOLEAN : PermissionResolved(g)
    \/ HandleVoiceButtonClick
    \/ Dismiss

\* what the program's pending promises and timers do
NextVoiceAsync ==
    \/ \E c \in 1..MaxCalls, ok \in BOOLEAN, b \in {"plain", "logging"} :
          StartResolved(c, ok, b)
    \/ \E c \in 1..MaxCalls, hasData \in BOOLEAN : OnStopEvent(c, hasData)
    \/ \E c \in 1..MaxCalls, a \in ActionTypes : BackendResponds(c, a)
    \/ \E c \in 1..MaxCalls : BackendFails(c)
    \/ \E c \in 1..MaxCalls : RefetchDone(c)
    \/ ErrorReset
    \/ \E t \in closeTimers : AutoCloseFire(t)

NextVoice == NextVoiceInput \/ NextVoiceAsync

Next == NextConn(MaxSockets) \/ NextInbound \/ NextBatch \/ NextApp \/ NextVoice

Spec == Init /\ [][Next]_vars

\* the connection alone: no inbound frame changes any variable it reads
SpecConn == Init /\ [][NextConn(MaxSockets)]_vars

\* the connection with its timers running: a due setInterval or setTimeout
\* callback is eventually run; socket events and calls of the returned API are
\* the environment's and may never come
SpecConnFair ==
    /\ SpecConn
    /\ WF_vars(PingTick)
    /\ WF_vars(\E t \in timers : TimerFire(t, MaxSockets))

\* the hook receiving frames, over fewer sockets; the handlers that only send
\* write lastSent, which no handler reads
SpecSync == Init /\ [][NextLink(SyncSockets) \/ NextInbound]_vars

\* App's displayed list: frames on the first connection, refetches, the store
SpecApp == Init /\ [][Mount \/ OnOpen(1) \/ NextInbound \/ NextApp]_vars

\* the first connection receiving frames faster than React renders
SpecBatch == Init /\ [][Mount \/ OnOpen(1) \/ NextBatch]_vars

\* the voice button, the recorder and the response display
SpecVoice == Init /\ [][NextVoice]_vars

\* the same with every pending promise settled and every due timer run; clicks,
\* Dismiss and the answer to the permission prompt are the user's
SpecVoiceFair == SpecVoice /\ WF_vars(NextVoiceAsync)

\* ============================================================== properties
OpenSockets == { s \in 1..Len(socks) : socks[s] = "OPEN" }
NewTimers   == timers' \ timers

\* C1: after a close with the attempt counter at 0, the first reconnect is
\* scheduled with a delay of exactly 1 s (the counter reads 1 only between that
\* scheduling and the next one, so lastDelay is then the first delay).
C1_FirstDelayIsOneSecond ==
    reconnectAttempts = 1 => lastDelay = BaseDelayMs

\* C2: within a run of failed attempts each newly scheduled delay is
\* min(2 * the previous delay, 30 s), and no scheduled delay exceeds 30 s.
C2_DelayDoublesUpToCap ==
    [][ \A t \in NewTimers :
          /\ t.delay <= MaxDelayMs
          /\ lastDelay' = t.delay
          /\ reconnectAttempts >= 1 => t.delay = Min(2 * lastDelay, MaxDelayMs) ]_vars

\* the capped delay has been scheduled after four doublings
C2_Witness ==
    /\ reconnectAttempts = maxReconnectAttempts
    /\ lastDelay = MaxDelayMs
    /\ \E t \in timers : t.delay = MaxDelayMs

\* Abandoned: the budget is used up, nothing is pending, nothing is alive
Abandoned ==
    /\ reconnectAttempts = maxReconnectAttempts
    /\ timers = {}
    /\ \A s \in 1..Len(socks) : socks[s] = "CLOSED"

\* C3: the attempt counter stays in 0..5; once it is at 5 a close schedules no
\* timer; and from Abandoned no socket is created except by a call of the
\* returned connect().
C3_BudgetBoundedAndTerminal ==
    [][ /\ reconnectAttempts' \in 0..maxReconnectAttempts
        /\ (reconnectAttempts = maxReconnectAttempts /\ reconnectAttempts' # 0)
              => NewTimers = {}
        /\ (Abandoned /\ Len(socks') > Len(socks)) => apiCalls' > apiCalls
        /\ (Abandoned /\ apiCalls' = apiCalls) => Abandoned' ]_vars

\* the first socket and five reconnect attempts all closed without ever opening
C3_Witness ==
    /\ Abandoned
    /\ Len(socks) = maxReconnectAttempts + 1
    /\ lastSent = "none"
    /\ apiCalls = 0

\* C4: every open event resets the attempt counter to 0, whatever it was; the
\* close of the connection that opened (no call of the returned connect() made)
\* then schedules the first delay of the sequence again, with the counter at 1.
C4_OpenResetsCounter ==
    [][ /\ (\E s \in 1..Len(socks) : socks[s] = "CONNECTING" /\ socks'[s] = "OPEN")
            => reconnectAttempts' = 0
        /\ (OpenSockets # {} /\ OpenSockets' = {} /\ apiCalls = 0 /\ NewTimers # {})
            => /\ reconnectAttempts' = 1
               /\ \A t \in NewTimers : t.delay = BackoffDelay(1) ]_vars

\* drop, three failed attempts, the fourth reconnect opens: counter back to 0
C4_Witness ==
    /\ Len(socks) = 5
    /\ socks[5] = "OPEN"
    /\ \A s \in 1..4 : socks[s] = "CLOSED"
    /\ lastDelay = BackoffDelay(4)
    /\ reconnectAttempts = 0
    /\ apiCalls = 0

\* C5: the open event of a reconnected socket (a socket after the first, none of
\* them made by a call of the returned connect()) sends a resynchronisation
\* request.
C5_ResyncRequestedOnReconnect ==
    [][ \A s \in 2..MaxSockets :
          (OnOpen(s) /\ apiCalls = 0) => lastSent' = "request_resync" ]_vars

\* C6: after a reconnect no task_update is merged into the view held from before
\* the disconnect until a snapshot has been applied: when the view is not empty,
\* the first change of it after the open event of a reconnected socket (a socket
\* after the first, none made by a call of the returned connect()) is never an
\* upsert.
C6_SnapshotBeforeMergeAfterReconnect ==
    [][ \A t \in Task :
          (\E s \in 2..MaxSockets :
              OnMessage(s, TaskUpdate(t)) /\ apiCalls = 0 /\ tasks # << >>)
             => lastChange # "none" ]_vars

\* what C7 asks of the view w that results from merging d into v
ReplacedInPlace(v, d, w) ==
    /\ Len(w) = Len(v)
    /\ \A i \in 1..Len(v) : w[i] = IF v[i].id = d.id THEN d ELSE v[i]

AppendedAtEnd(v, d, w) ==
    /\ Len(w) = Len(v) + 1
    /\ w[Len(w)] = d
    /\ \A i \in 1..Len(v) : w[i] = v[i]

\* C7: a task_update replaces the task with the same id at its position, all
\* else unchanged; when no task has that id it is appended at the end.
\* (A step that handles a task_update leaves lastChange at "replace" or "append";
\* testing that first dismisses every other step without computing a merge.)
C7_UpsertReplacesInPlaceOrAppends ==
    [][ lastChange' \in {"replace", "append"} =>
          \A s \in OpenSockets, t \in Task :
             OnMessage(s, TaskUpdate(t)) =>
                IF \E i \in 1..Len(tasks) : tasks[i].id = t.id
                THEN ReplacedInPlace(tasks, t, tasks')
                ELSE AppendedAtEnd(tasks, t, tasks') ]_vars

\* a task_update has just replaced a task of a view that holds other tasks too
C7_Witness ==
    /\ lastChange = "replace"
    /\ Len(tasks) >= 2

\* C8: a tasks_update makes the hook's view and App's displayed list equal to
\* the snapshot, the empty one included.
C8_SnapshotReplacesViewAndDisplay ==
    [][ \A s \in OpenSockets, l \in TaskLists :
          OnMessage(s, TasksUpdate(l)) => (tasks' = l /\ displayed' = l) ]_vars

\* single-task mutations of the store and the task_update each one emits
MutationEvents(st) ==
         { [after |-> StoreComplete(st, st[i].id),
            event |-> TaskUpdate([st[i] EXCEPT !.completed = TRUE])] : i \in 1..Len(st) }
    \cup { [after |-> StoreCreate(st, id),
            event |-> TaskUpdate([id |-> id, completed |-> FALSE])] :
              id \in { n \in Ids : n = nextId } }

\* C9: a view equal to the fetched list, after merging the task_update of a
\* store mutation, equals the list fetched after the mutation.
C9_UpsertRoundTripsWithRefetch ==
    \A m \in MutationEvents(store) :
        HandleFrame(GetTasks(store, FALSE), m.event) = GetTasks(m.after, FALSE)

\* C10: handling the same frame a second time leaves the view as the first
\* handling left it.
C10_MergeIdempotent ==
    \A f \in Frames :
        HandleFrame(HandleFrame(tasks, f), f) = HandleFrame(tasks, f)

\* a task_update has just been appended: a second delivery must not append again
C10_Witness ==
    /\ lastChange = "append"
    /\ Len(tasks) >= 2

\* C11: every message the hook itself sends has type ping or request_resync;
\* requestTasks on an open socket sends a request_resync.
C11_OnlyPingOrResyncSent ==
    lastSent \in {"none", "ping", "request_resync"}


\* the frames C12 lists: not valid JSON, a pong, any other type, a tasks_update
\* without tasks, a task_update without data
IgnoredFrames ==
    { f \in Frames :
        \/ ~f.valid
        \/ f.type \notin {"tasks_update", "task_update"}
        \/ f.type = "tasks_update" /\ ~f.hasTasks
        \/ f.type = "task_update" /\ ~f.hasData }

\* C12: handling a frame that is not a well-formed tasks_update or task_update
\* leaves the task view, isConnected and the reconnect counter unchanged and
\* closes no socket.
C12_OtherFramesChangeNothing ==
    [][ \A s \in OpenSockets, f \in IgnoredFrames :
          OnMessage(s, f) =>
             /\ tasks' = tasks
             /\ isConnected' = isConnected
             /\ reconnectAttempts' = reconnectAttempts
             /\ socks' = socks ]_vars

\* an open socket can deliver such a frame while the view holds tasks, the
\* counter is positive and isConnected is false (a second socket has failed)
C12_Witness ==
    /\ OpenSockets # {}
    /\ IgnoredFrames # {}
    /\ tasks # << >>
    /\ reconnectAttempts > 0
    /\ ~isConnected

\* only disconnect() puts a socket in CLOSING: its close event is still to come
Closing == { s \in 1..Len(socks) : socks[s] = "CLOSING" }

\* C15: after disconnect() the hook schedules no reconnect: while the socket it
\* closed is closing, a step that is not a call of the returned connect()
\* adds no reconnect timer and leaves isConnected false.
C15_NoReconnectAfterDisconnect ==
    [][ (Closing # {} /\ apiCalls' = apiCalls)
           => (NewTimers = {} /\ ~isConnected') ]_vars

\* C16: a connection on which 2 consecutive probes went unanswered is closed:
\* isConnected becomes false even if the transport never signals a close.
C16_HalfOpenDetected ==
    (isConnected /\ unanswered >= 2) ~> ~isConnected

\* C18: when a batch of frames has been handled and React renders, the view
\* becomes the left fold of the merge rule over those frames in delivery order,
\* starting from the view before the batch.
C18_BatchIsLeftFold ==
    [][ (batchFrames # << >> /\ batchFrames' = << >>)
           => tasks' = FoldFrames(tasks, batchFrames) ]_vars

\* a render has processed two or more updates, the last one replacing a task
\* that an earlier frame or render had put in the view
C18_Witness ==
    /\ rendered >= 2
    /\ lastChange = "replace"
    /\ batchFrames = << >>

\* C13: every submitted voice command (a run of handleVoiceButtonClick that took
\* the LISTENING branch) that has ended has had its response shown: lastResponse
\* set and showResponse true.
C13_EveryCommandShowsAResponse ==
    \A c \in 1..Len(calls) :
        (calls[c].branch = "stop" /\ calls[c].pc = "done") => calls[c].shown

\* C14: whenever App is PROCESSING it eventually is IDLE again.
C14_ProcessingReturnsToIdle ==
    (appState = "PROCESSING") ~> (appState = "IDLE")

\* C17: a click on the voice button while App is PROCESSING or ERROR changes
\* neither appState, the recorder, lastResponse and what is shown, nor the runs
\* of the handler in flight (no recording and no request is started), nor any
\* pending timer.
C17_ClickWhileBusyChangesNothing ==
    [][ (HandleVoiceButtonClick /\ appState \in {"PROCESSING", "ERROR"})
           => UNCHANGED << appState, recorderVars, urlVars, responseVars, calls,
                           errorTimers >> ]_vars

\* the latest click came while a request was in flight, and it still is
C17_Witness ==
    /\ hasAudioPermission
    /\ lastClickIn = "PROCESSING"
    /\ appState = "PROCESSING"
    /\ \E c \in 1..Len(calls) : calls[c].pc = "calling"

\* C19: the auto-close timer that closes a shown response is the one set when
\* that response became visible, and it never closes a response whose action
\* is unclear.
C19_AutoCloseOnlyOwnResponse ==
    [][ \A t \in closeTimers :
          (AutoCloseFire(t) /\ showResponse)
             => (t = lastResponse.id /\ lastResponse.action # "unclear") ]_vars

\* C20: once the stopRecording of a run has resolved, the tracks of the stream
\* of the recorder it stopped have been stopped.
C20_TracksStoppedAfterStop ==
    \A c \in 1..Len(calls) :
        (calls[c].branch = "stop" /\ calls[c].rec # 0 /\ calls[c].pc # "stopping")
           => recorders[calls[c].rec].tracks = "stopped"

\* C21: while hasAudioPermission is false a click on the voice button leaves
\* appState unchanged, starts no recording and no run of the handler that
\* awaits anything (no request is sent), and sets no timer.
C21_NoPermissionClickChangesNothing ==
    [][ (HandleVoiceButtonClick /\ ~hasAudioPermission)
           => UNCHANGED << appState, recorderVars, urlVars, responseVars, calls,
                           errorTimers >> ]_vars

\* permission was refused, the button was clicked in IDLE, nothing was started
C21_Witness ==
    /\ ~permissionPending
    /\ ~hasAudioPermission
    /\ lastClickIn = "IDLE"
    /\ calls = << >>
    /\ recorders = << >>

\* C22: showing a new response cancels the timer of an earlier one: while a
\* response is shown, the only auto-close timer that can be pending is the one
\* set for that response.
C22_OnlyOwnTimerPending ==
    showResponse => \A t \in closeTimers : t = lastResponse.id

\* the MediaRecorders that are recording (started and not yet stopped)
Recording == { r \in 1..Len(recorders) : recorders[r].state = "recording" }

\* C23: App is LISTENING exactly when a recorder is recording, and at most one
\* recorder is recording at a time.
C23_ListeningIffOneRecording ==
    /\ (appState = "LISTENING") <=> (Recording # {})
    /\ Cardinality(Recording) <= 1

\* a task the store created and has deleted since (identifiers are not reused)
Deleted(id) == id < nextId /\ ~HasId(store, id)

\* C24: once a deleted task has left the displayed list, a task_update for
\* another task, carrying that task as the store holds it, does not bring the
\* deleted task back into the displayed list.
C24_DeletedTaskStaysGone ==
    [][ \A s \in OpenSockets, t \in Task :
          (OnMessage(s, TaskUpdate(t)) /\ \E i \in 1..Len(store) : store[i] = t)
             => \A id \in Ids :
                   (Deleted(id) /\ id # t.id /\ ~HasId(displayed, id))
                      => ~HasId(displayed', id) ]_vars

\* C25: when the stop event lets stopRecording resolve, with a recording or
\* with null, isRecording is false afterwards; a stopRecording called with no
\* recorder or while not recording changes no state of the recorder.
C25_StopLeavesNotRecording ==
    [][ /\ \A c \in 1..Len(calls), hasData \in BOOLEAN :
              OnStopEvent(c, hasData) => ~isRecording'
        /\ ( /\ HandleVoiceButtonClick
             /\ PermittedBranch(hasAudioPermission, appState) = "stop"
             /\ (mediaRecorderRef = 0 \/ ~isRecording) )
              => UNCHANGED recorderVars ]_vars

\* C26: when a run of the handler that got a recording finishes (its finally
\* has called clearRecording), the object URL made for that recording is
\* revoked, audioURL is empty and the chunk buffer is empty.
C26_RecordingClearedWithCommand ==
    [][ \A c \in 1..Len(calls) :
          (calls[c].pc \in {"calling", "refetching"} /\ calls'[c].pc = "done")
             => (c \notin liveUrls' /\ audioURL' = 0 /\ ~chunks') ]_vars

\* C27: the hook's task view never holds two tasks with the same id: the views
\* reached through snapshots and task_update merges have unique ids, and one
\* more task_update merge keeps them unique.
C27_IdsStayUnique ==
    /\ UniqueIds(tasks)
    /\ \A t \in Task : UniqueIds(HandleFrame(tasks, TaskUpdate(t)))

\* a task_update has just been merged into a full view whose tasks differ in
\* their completed flag: the merge met an id that was already there
C27_Witness ==
    /\ lastChange = "replace"
    /\ Len(tasks) = MaxId
    /\ \E i, j \in 1..Len(tasks) : tasks[i].completed /\ ~tasks[j].completed

\* wsRef refers to a socket that is open
RefOpen == wsRef # 0 /\ socks[wsRef] = "OPEN"

\* C28: after every step isConnected is true exactly when wsRef refers to an
\* open socket, and at most one socket of the hook is open; the close event of
\* a socket other than wsRef's, while wsRef's socket is open, leaves wsRef and
\* isConnected as they are.
C28_ConnectedIffRefOpen ==
    [][ /\ isConnected' <=> RefOpen'
        /\ Cardinality(OpenSockets') <= 1
        /\ \A s \in 1..Len(socks) :
              (OnClose(s) /\ s # wsRef /\ RefOpen) => (wsRef' = wsRef /\ isConnected')
      ]_vars

====
